---- MODULE Spec2Model ----
(***************************************************************************)
(* Model of the to-do / habit tracker: the JSON record store (tasks,       *)
(* goals, habits, categories), the handlers that change it (todo.py,       *)
(* goals.py, habits.py, main.py), the analytics reports (main.py for       *)
(* tasks, analytics.py for habits and for time spent), the habit streak,   *)
(* and the load and save paths of data_storage.py.                         *)
(*                                                                         *)
(* Encoding of Python values:                                              *)
(*   None            -> Null   (-1)                                        *)
(*   key not in dict -> Absent (-2)                                        *)
(*   ISO date string -> a day number; the order of day numbers is the      *)
(*                      lexicographic order of the ISO strings             *)
(*   round(x, 2)     -> the integer number of hundredths                   *)
(***************************************************************************)
EXTENDS Integers, Sequences, FiniteSets, TLC

VARIABLES
    tasks,       \* content of tasks.json
    goals,       \* content of goals.json
    habits,      \* content of habits.json
    categories,  \* content of categories.json
    freed,       \* history: the ids removed by a deletion, per store
    lastOp,      \* history: the handler that ran last and its arguments
    report,      \* the value returned by the last analytics call
    names,       \* data directory: path -> inode number (0: no such file)
    inode,       \* inode number -> file content, a sequence of JSON tokens
    lock,        \* inode number -> process holding its flock (0: nobody)
    proc,        \* process -> where it is inside a save call
    snapshot     \* history: per file, what a load returned when the last
                 \* save began and the list that save was given

diskVars == <<names, inode, lock, proc, snapshot>>

vars == <<tasks, goals, habits, categories, freed, lastOp, report,
          names, inode, lock, proc, snapshot>>

\* ---------------------------------------------------------------- bounds
MaxTasks == 1
MaxGoals == 2
MaxHabits == 2
MaxLinkedHabits == 1
MaxMainTasks == 3
MaxDueTasks == 2
LongStreak == 101

\* ------------------------------------------------------- Python encoding
Null == -1
Absent == -2

\* dict.get(key): a missing key reads as None
Get(v) == IF v = Absent THEN Null ELSE v

\* Truthy taking every integer, 0 included, for a value that is set
TruthyNotNone(v) == v # Null /\ v # Absent

\* Python truthiness of an optional integer field
Truthy(v) == v # Null /\ v # Absent /\ v # 0

\* a task written by todo.py has no "category" key
NoCategory == "<absent>"

\* date.today() as a day number, and the day seven days before it
Today == 10
week_ago == Today - 7

\* [x for x in s if Keep(x)]
Filter(s, Keep(_)) == SelectSeq(s, Keep)

Count(s, Keep(_)) == Len(Filter(s, Keep))

\* ----------------------------------------------------------- task store
NoBefore == [tasks |-> 0, habits |-> 0, tasks_without |-> 0, habits_without |-> 0]
NoOp == [op |-> "init", arg |-> Null, arg2 |-> Null, before |-> NoBefore]
NoReport == [kind |-> "none", raised |-> FALSE]

Op(name, a, b) == [op |-> name, arg |-> a, arg2 |-> b, before |-> NoBefore]

\* the ids of a record list
Ids(s) == {s[i].id : i \in 1..Len(s)}

\* history: the deletion of id from a store frees it when a record had it
Frees(store, ids, id) == freed' = [freed EXCEPT ![store] = @ \cup (ids \cap {id})]

\* len(tasks) + 1
NextId(s) == Len(s) + 1

add_task(priority, due_date, goal_id) ==
    /\ Len(tasks) < MaxTasks
    /\ LET base == [id |-> NextId(tasks), priority |-> priority,
                    due_date |-> due_date, category |-> NoCategory,
                    completed |-> FALSE, created_at |-> Today,
                    completed_at |-> Null, goal_id |-> Absent]
           new_task == IF goal_id # Null THEN [base EXCEPT !.goal_id = goal_id]
                       ELSE base
       IN tasks' = Append(tasks, new_task)
    /\ lastOp' = Op("add_task", NextId(tasks), goal_id)
    /\ report' = NoReport
    /\ UNCHANGED <<goals, habits, categories, freed, diskVars>>

\* add_task of main.py: the task carries a category, which is registered
main_add_task(priority, due_date, category, goal_id) ==
    /\ Len(tasks) < MaxMainTasks
    /\ LET base == [id |-> NextId(tasks), priority |-> priority,
                    due_date |-> due_date, category |-> category,
                    completed |-> FALSE, created_at |-> Today,
                    completed_at |-> Null, goal_id |-> Absent]
           new_task == IF goal_id # Null THEN [base EXCEPT !.goal_id = goal_id]
                       ELSE base
       IN tasks' = Append(tasks, new_task)
    /\ categories' = IF category # "" /\ \A i \in 1..Len(categories) : categories[i] # category
                     THEN Append(categories, category)
                     ELSE categories
    /\ lastOp' = Op("add_task", NextId(tasks), goal_id)
    /\ report' = NoReport
    /\ UNCHANGED <<goals, habits, freed, diskVars>>

\* toggle_task that leaves the completion timestamp when it uncompletes
toggle_task_keeping_timestamp(task_id) ==
    /\ \E i \in 1..Len(tasks) : tasks[i].id = task_id
    /\ LET i == CHOOSE j \in 1..Len(tasks) :
                   /\ tasks[j].id = task_id
                   /\ \A k \in 1..(j - 1) : tasks[k].id # task_id
           done == ~tasks[i].completed
       IN tasks' = [tasks EXCEPT ![i].completed = done,
                                 ![i].completed_at = IF done THEN Today ELSE @]
    /\ lastOp' = Op("toggle_task", task_id, Null)
    /\ report' = NoReport
    /\ UNCHANGED <<goals, habits, categories, freed, diskVars>>

toggle_task(task_id) ==
    /\ \E i \in 1..Len(tasks) : tasks[i].id = task_id
    /\ LET i == CHOOSE j \in 1..Len(tasks) :
                   /\ tasks[j].id = task_id
                   /\ \A k \in 1..(j - 1) : tasks[k].id # task_id
           done == ~tasks[i].completed
       IN tasks' = [tasks EXCEPT ![i].completed = done,
                                 ![i].completed_at = IF done THEN Today ELSE Null]
    /\ lastOp' = Op("toggle_task", task_id, Null)
    /\ report' = NoReport
    /\ UNCHANGED <<goals, habits, categories, freed, diskVars>>

\* None where a string argument is expected
NoText == "<None>"

\* update_task: an argument that is None leaves its field as it is
update_task(task_id, priority, due_date, goal_id) ==
    /\ LET i == IF \E j \in 1..Len(tasks) : tasks[j].id = task_id
                THEN CHOOSE j \in 1..Len(tasks) :
                         /\ tasks[j].id = task_id
                         /\ \A k \in 1..(j - 1) : tasks[k].id # task_id
                ELSE 0
       IN /\ tasks' = IF i = 0 THEN tasks
                      ELSE [tasks EXCEPT
                              ![i].priority = IF priority # NoText THEN priority ELSE @,
                              ![i].due_date = IF due_date # Null THEN due_date ELSE @,
                              ![i].goal_id = IF goal_id # Null THEN goal_id ELSE @]
          /\ lastOp' = [Op("update_task", task_id, goal_id) EXCEPT
                            !.before = [found |-> i # 0,
                                        linked |-> i # 0 /\ Get(tasks[i].goal_id) \in Ids(goals)]]
    /\ report' = NoReport
    /\ UNCHANGED <<goals, habits, categories, freed, diskVars>>

delete_task(task_id) ==
    /\ LET kept == Filter(tasks, LAMBDA t : t.id # task_id)
       IN tasks' = IF Len(kept) < Len(tasks) THEN kept ELSE tasks
    /\ Frees("tasks", Ids(tasks), task_id)
    /\ lastOp' = Op("delete_task", task_id, Null)
    /\ report' = NoReport
    /\ UNCHANGED <<goals, habits, categories, diskVars>>

\* ----------------------------------------------------------- goal store
add_goal(title) ==
    /\ Len(goals) < MaxGoals
    /\ goals' = Append(goals, [id |-> NextId(goals), title |-> title])
    /\ lastOp' = Op("add_goal", NextId(goals), Null)
    /\ report' = NoReport
    /\ UNCHANGED <<tasks, habits, categories, freed, diskVars>>

delete_goal(goal_id) ==
    /\ goals' = Filter(goals, LAMBDA g : g.id # goal_id)
    /\ tasks' = [i \in 1..Len(tasks) |->
                    IF Get(tasks[i].goal_id) = goal_id
                    THEN [tasks[i] EXCEPT !.goal_id = Null]
                    ELSE tasks[i]]
    /\ lastOp' = [Op("delete_goal", goal_id, Null) EXCEPT !.before =
            [tasks |-> Count(tasks, LAMBDA t : Get(t.goal_id) = goal_id),
             habits |-> Count(habits, LAMBDA h : Get(h.goal_id) = goal_id),
             tasks_without |-> Count(tasks, LAMBDA t : ~Truthy(Get(t.goal_id))),
             habits_without |-> Count(habits, LAMBDA h : ~Truthy(Get(h.goal_id)))]]
    /\ report' = NoReport
    /\ Frees("goals", Ids(goals), goal_id)
    /\ UNCHANGED <<habits, categories, diskVars>>

\* ---------------------------------------------------------- habit store
\* writes the habit list to habits.json
save_habits(hs) == habits' = hs

add_habit(title, priority, goal_id, track_time) ==
    /\ Len(habits) < MaxHabits
    /\ save_habits(Append(habits,
            [id |-> NextId(habits), title |-> title, priority |-> priority,
             check_ins |-> << >>, track_time |-> track_time,
             created_at |-> Today, goal_id |-> goal_id]))
    /\ lastOp' = Op("add_habit", NextId(habits), goal_id)
    /\ report' = NoReport
    /\ UNCHANGED <<tasks, goals, categories, freed, diskVars>>

\* update_habit: an argument that is None leaves its field as it is;
\* track_time is << >> for None and <<b>> for the boolean b
update_habit(habit_id, title, priority, goal_id, track_time) ==
    /\ LET i == IF \E j \in 1..Len(habits) : habits[j].id = habit_id
                THEN CHOOSE j \in 1..Len(habits) :
                         /\ habits[j].id = habit_id
                         /\ \A k \in 1..(j - 1) : habits[k].id # habit_id
                ELSE 0
       IN /\ IF i = 0 THEN UNCHANGED habits
             ELSE save_habits([habits EXCEPT
                     ![i].title = IF title # NoText THEN title ELSE @,
                     ![i].priority = IF priority # NoText THEN priority ELSE @,
                     ![i].goal_id = IF goal_id # Null THEN goal_id ELSE @,
                     ![i].track_time = IF track_time # << >> THEN track_time[1] ELSE @])
          /\ lastOp' = [Op("update_habit", habit_id, goal_id) EXCEPT
                            !.before = [found |-> i # 0,
                                        linked |-> i # 0 /\ Get(habits[i].goal_id) \in Ids(goals)]]
    /\ report' = NoReport
    /\ UNCHANGED <<tasks, goals, categories, freed, diskVars>>

delete_habit(habit_id) ==
    /\ LET kept == Filter(habits, LAMBDA h : h.id # habit_id)
       IN IF Len(kept) < Len(habits) THEN save_habits(kept)
          ELSE UNCHANGED habits
    /\ Frees("habits", Ids(habits), habit_id)
    /\ lastOp' = Op("delete_habit", habit_id, Null)
    /\ report' = NoReport
    /\ UNCHANGED <<tasks, goals, categories, diskVars>>

\* a check-in entry: the current object format or the legacy plain string
DictCheckin(d, ts) == [kind |-> "dict", date |-> d, time_spent |-> ts]
StrCheckin(d) == [kind |-> "str", date |-> d, time_spent |-> Absent]

\* index of the first habit whose id matches (0 when there is none)
FindById(s, id) ==
    IF \E i \in 1..Len(s) : s[i].id = id
    THEN CHOOSE i \in 1..Len(s) :
             /\ s[i].id = id
             /\ \A k \in 1..(i - 1) : s[k].id # id
    ELSE 0

\* index of the first check-in on check_date (0 when there is none)
ExistingCheckin(cs, check_date) ==
    IF \E i \in 1..Len(cs) : cs[i].date = check_date
    THEN CHOOSE i \in 1..Len(cs) :
             /\ cs[i].date = check_date
             /\ \A k \in 1..(i - 1) : cs[k].date # check_date
    ELSE 0

\* SortByDate that leaves the list in the order it has
SortByDateAsIs(cs) == cs

\* list.sort(key=date): a stable sort; an entry goes behind the entries of
\* an earlier date and behind the earlier entries of its own date
SortByDate(cs) ==
    LET rank == [i \in 1..Len(cs) |->
                    1 + Cardinality({j \in 1..Len(cs) :
                            \/ cs[j].date < cs[i].date
                            \/ (cs[j].date = cs[i].date /\ j < i)})]
    IN [k \in 1..Len(cs) |-> cs[CHOOSE i \in 1..Len(cs) : rank[i] = k]]

\* CheckedIn without the search for an entry on the same date
CheckedInAppend(habit, check_date, time_spent) ==
    LET timed == time_spent # Null /\ habit.track_time
    IN SortByDate(Append(habit.check_ins,
            DictCheckin(check_date, IF timed THEN time_spent ELSE Absent)))

\* the new check_ins list of one habit after check_in_habit
CheckedIn(habit, check_date, time_spent) ==
    LET cs == habit.check_ins
        existing_checkin == ExistingCheckin(cs, check_date)
        migrated == IF existing_checkin # 0 /\ cs[existing_checkin].kind = "str"
                    THEN [cs EXCEPT ![existing_checkin] = DictCheckin(check_date, Null)]
                    ELSE cs
        timed == time_spent # Null /\ habit.track_time
        checkin_obj == DictCheckin(check_date, IF timed THEN time_spent ELSE Absent)
        updated == IF existing_checkin # 0
                   THEN IF timed THEN [migrated EXCEPT ![existing_checkin] = checkin_obj]
                        ELSE migrated
                   ELSE Append(migrated, checkin_obj)
    IN SortByDate(updated)

check_in_habit(habit_id, check_date, time_spent) ==
    /\ LET i == FindById(habits, habit_id)
       IN IF i # 0
          THEN save_habits([habits EXCEPT ![i].check_ins =
                                CheckedIn(habits[i], check_date, time_spent)])
          ELSE UNCHANGED habits
    /\ lastOp' = [Op("check_in_habit", habit_id, check_date) EXCEPT !.before =
            LET i == FindById(habits, habit_id)
            IN [found |-> i # 0,
                existing |-> i # 0 /\ ExistingCheckin(habits[i].check_ins, check_date) # 0,
                len |-> IF i # 0 THEN Len(habits[i].check_ins) ELSE 0,
                time_spent |-> time_spent]]
    /\ report' = NoReport
    /\ UNCHANGED <<tasks, goals, categories, freed, diskVars>>

uncheck_habit(habit_id, check_date) ==
    /\ LET i == FindById(habits, habit_id)
       IN IF i # 0
          THEN save_habits([habits EXCEPT ![i].check_ins =
                                Filter(habits[i].check_ins,
                                       LAMBDA c : c.date # check_date)])
          ELSE UNCHANGED habits
    /\ lastOp' = Op("uncheck_habit", habit_id, check_date)
    /\ report' = NoReport
    /\ UNCHANGED <<tasks, goals, categories, freed, diskVars>>

\* ------------------------------------------------------------ analytics
\* round(n / d, 2) in hundredths and round(n / d, 1) in tenths (half to even)
RoundDiv(n, d) ==
    LET q == n \div d
        r == n % d
    IN IF 2 * r > d \/ (2 * r = d /\ q % 2 = 1) THEN q + 1 ELSE q

Round2(n, d) == RoundDiv(100 * n, d)
Round1(n, d) == RoundDiv(10 * n, d)

RECURSIVE SumInts(_)
SumInts(s) ==
    IF s = << >> THEN 0
    ELSE s[1] + SumInts(Tail(s))

\* sum(F(x) for x in s)
SumSeq(s, F(_)) == SumInts([i \in 1..Len(s) |-> F(s[i])])

\* d[k] = v on an insertion-ordered dict, kept as a sequence of entries
DictPut(d, k, v) ==
    IF \E i \in 1..Len(d) : d[i].key = k
    THEN [i \in 1..Len(d) |-> IF d[i].key = k THEN [key |-> k, val |-> v] ELSE d[i]]
    ELSE Append(d, [key |-> k, val |-> v])

DictHas(d, k) == \E i \in 1..Len(d) : d[i].key = k

DictGet(d, k) == d[CHOOSE i \in 1..Len(d) : d[i].key = k].val

\* None where a group name is expected
NoName == "<None>"

\* most productive group: highest rate among the groups of at least 3
RECURSIVE MostProductive(_, _, _)
MostProductive(items, best, highest) ==
    IF items = << >> THEN [name |-> best, rate |-> highest]
    ELSE LET g == items[1]
         IN IF g.val.total >= 3 /\ g.val.completion_percentage > highest
            THEN MostProductive(Tail(items), g.name, g.val.completion_percentage)
            ELSE MostProductive(Tail(items), best, highest)

\* group with most records
RECURSIVE MostTasks(_, _, _)
MostTasks(items, best, max_tasks) ==
    IF items = << >> THEN [name |-> best, max |-> max_tasks]
    ELSE LET g == items[1]
         IN IF g.val.total > max_tasks
            THEN MostTasks(Tail(items), g.name, g.val.total)
            ELSE MostTasks(Tail(items), best, max_tasks)

\* share of each group in the grand total, keyed by group name
RECURSIVE Distribution(_, _, _)
Distribution(items, total, acc) ==
    IF items = << >> THEN acc
    ELSE Distribution(Tail(items), total,
            DictPut(acc, items[1].name,
                    IF total > 0 THEN Round2(items[1].val.total * 100, total) ELSE 0))

\* HabitStats with "incomplete" taken as the task report takes it
HabitStatsAsTasks(hs) ==
    LET total == Len(hs)
        check_ins == SumSeq(hs, LAMBDA h : Len(h.check_ins))
    IN [total |-> total, completed |-> check_ins, incomplete |-> total - check_ins,
        completion_percentage |-> IF total > 0 THEN Round2(check_ins, total) ELSE 0]

\* statistics of one group of habits: "completed" counts check-ins
HabitStats(hs) ==
    LET total == Len(hs)
        check_ins == SumSeq(hs, LAMBDA h : Len(h.check_ins))
    IN [total |-> total, completed |-> check_ins, incomplete |-> total,
        completion_percentage |-> IF total > 0 THEN Round2(check_ins, total) ELSE 0]

\* habit_priority_levels as the docstring of get_analytics lists them
habit_priority_levels_of_tasks == <<"Now", "Next", "Later">>

habit_priority_levels == <<"Today", "Now", "Next", "Later", "Someday">>

RECURSIVE HabitGoalStats(_, _, _)
HabitGoalStats(gs, hs, acc) ==
    IF gs = << >> THEN acc
    ELSE LET goal_habits == Filter(hs, LAMBDA h : Get(h.goal_id) = gs[1].id)
         IN HabitGoalStats(Tail(gs), hs,
                DictPut(acc, gs[1].id,
                        [goal_name |-> gs[1].title] @@ HabitStats(goal_habits)))

\* any(ci >= week_ago for ci in check_ins): comparing an object check-in
\* with the week_ago string is a TypeError
AnyRecent(cs) ==
    LET decided == {i \in 1..Len(cs) :
                       cs[i].kind = "dict" \/ cs[i].date >= week_ago}
    IN IF decided = {} THEN "false"
       ELSE LET first == CHOOSE i \in decided : \A j \in decided : i <= j
            IN IF cs[first].kind = "dict" THEN "raise" ELSE "true"

\* today_str in check_ins: only a plain string equals the string
TodayInCheckIns(cs) == \E i \in 1..Len(cs) : cs[i].kind = "str" /\ cs[i].date = Today

\* the goal dict as (name, stats) items in iteration order
GoalItems(goal_stats) ==
    [i \in 1..Len(goal_stats) |->
        [name |-> goal_stats[i].val.goal_name, val |-> goal_stats[i].val]]

HabitAnalytics(hs, gs) ==
    LET goal_stats == HabitGoalStats(gs, hs, << >>)
        with_goals == SumSeq(gs, LAMBDA g :
                          Count(hs, LAMBDA h : Get(h.goal_id) = g.id))
        most == MostProductive(GoalItems(goal_stats), NoName, 0)
        big == MostTasks(GoalItems(goal_stats), NoName, 0)
        total_check_ins == SumSeq(hs, LAMBDA h : Len(h.check_ins))
    IN IF \E i \in 1..Len(hs) : AnyRecent(hs[i].check_ins) = "raise"
       THEN [kind |-> "habit", raised |-> TRUE]
       ELSE
       [kind |-> "habit", raised |-> FALSE,
        overall |-> HabitStats(hs),
        by_priority |-> [i \in 1..Len(habit_priority_levels) |->
            [key |-> habit_priority_levels[i],
             val |-> HabitStats(Filter(hs,
                        LAMBDA h : h.priority = habit_priority_levels[i]))]],
        by_goal |-> [goals |-> goal_stats,
                     tasks_with_goals |-> with_goals,
                     tasks_without_goals |->
                         Count(hs, LAMBDA h : ~Truthy(Get(h.goal_id))),
                     total_goals |-> Len(gs)],
        time_stats |-> [overdue_count |->
                            Count(hs, LAMBDA h : ~TodayInCheckIns(h.check_ins)),
                        due_soon_count |->
                            Count(hs, LAMBDA h : AnyRecent(h.check_ins) = "true"),
                        completed_today |->
                            Count(hs, LAMBDA h : TodayInCheckIns(h.check_ins)),
                        created_today |->
                            Count(hs, LAMBDA h : h.created_at = Today),
                        avg_completion_days |->
                            IF Len(hs) > 0 THEN Round1(total_check_ins, Len(hs)) ELSE 0],
        productivity |-> [most_productive |-> most.name,
                          most_productive_completion_rate |->
                              IF most.name # NoName THEN most.rate ELSE 0,
                          with_most_tasks |-> big.name,
                          max_tasks |-> big.max,
                          distribution |->
                              Distribution(GoalItems(goal_stats), Len(hs), << >>)]]

get_habit_analytics ==
    /\ report' = HabitAnalytics(habits, goals)
    /\ lastOp' = IF lastOp.op = "delete_goal"
                 THEN [lastOp EXCEPT !.op = "get_analytics"]
                 ELSE Op("get_analytics", Null, Null)
    /\ UNCHANGED <<tasks, goals, habits, categories, freed, diskVars>>

\* datetime.now() in half days (noon of Today); a date string parses to
\* midnight of its day, a malformed one raises ValueError
BadDate == 99
now == 2 * Today + 1
ParseDate(d) == 2 * d
Parseable(d) == d # BadDate

\* timedelta.days: whole days, rounded down
DeltaDays(halfdays) == IF halfdays >= 0 THEN halfdays \div 2
                       ELSE -((1 - halfdays) \div 2)

\* the while loop of get_habit_streak over the sorted dates, from the latest
RECURSIVE StreakLoop(_, _, _)
StreakLoop(check_dates, idx, streak) ==
    IF idx < 1 THEN streak
    ELSE LET expected_date == Today - streak
         IN IF \/ check_dates[idx] = expected_date
               \/ check_dates[idx] = expected_date - 1
            THEN StreakLoop(check_dates, idx - 1, streak + 1)
            ELSE IF check_dates[idx] < expected_date - 1
                 THEN streak
                 ELSE StreakLoop(check_dates, idx - 1, streak)

\* get_habit_streak: 0 without the habit or without check-ins; a date that
\* does not parse makes date.fromisoformat raise ValueError
HabitStreak(hs, habit_id) ==
    LET i == FindById(hs, habit_id)
        sorted == SortByDate(hs[i].check_ins)
        check_dates == [k \in 1..Len(sorted) |-> sorted[k].date]
    IN IF i = 0 \/ hs[i].check_ins = << >>
       THEN [kind |-> "streak", raised |-> FALSE, streak |-> 0]
       ELSE IF \E k \in 1..Len(check_dates) : ~Parseable(check_dates[k])
       THEN [kind |-> "streak", raised |-> TRUE]
       ELSE [kind |-> "streak", raised |-> FALSE,
             streak |-> IF check_dates[Len(check_dates)] >= Today - 1
                        THEN StreakLoop(check_dates, Len(check_dates), 0)
                        ELSE 0]

get_habit_streak(habit_id) ==
    /\ report' = HabitStreak(habits, habit_id)
    /\ lastOp' = Op("get_habit_streak", habit_id, Null)
    /\ UNCHANGED <<tasks, goals, habits, categories, freed, diskVars>>

\* TaskStats with a group of no tasks counted as fully completed
TaskStatsVacuous(ts) ==
    LET total == Len(ts)
        completed == Count(ts, LAMBDA t : t.completed)
    IN [total |-> total, completed |-> completed,
        incomplete |-> total - completed,
        completion_percentage |->
            IF total > 0 THEN Round2(completed * 100, total) ELSE 10000]

\* statistics of one group of tasks
TaskStats(ts) ==
    LET total == Len(ts)
        completed == Count(ts, LAMBDA t : t.completed)
    IN [total |-> total, completed |-> completed,
        incomplete |-> total - completed,
        completion_percentage |->
            IF total > 0 THEN Round2(completed * 100, total) ELSE 0]

\* get_goal_progress: the tasks linked to the goal and how many are done
GoalProgress(ts, goal_id) ==
    LET goal_tasks == Filter(ts, LAMBDA t : Get(t.goal_id) = goal_id)
        total == Len(goal_tasks)
        completed == Count(goal_tasks, LAMBDA t : t.completed)
    IN [kind |-> "progress", raised |-> FALSE,
        total |-> total, completed |-> completed,
        percentage |-> IF total > 0
                       THEN Round2(completed * 100, total) ELSE 0]

get_goal_progress(goal_id) ==
    /\ report' = GoalProgress(tasks, goal_id)
    /\ lastOp' = Op("get_goal_progress", goal_id, Null)
    /\ UNCHANGED <<tasks, goals, habits, categories, freed, diskVars>>

\* ---------------------------------------------- analytics.py time report
\* the calendar: day 1 is a Monday and day 8 the first day of a month, so
\* Today is a Wednesday, the 3rd; the months before it are 28, 31, 31, 30,
\* ... days long (March back to the March of the year before), those after
\* 31, 30 and 31
MonthStarts == <<-357, -326, -296, -265, -235, -204, -173, -143, -112, -82,
                 -51, -20, 8, 39, 69, 100>>

\* date.weekday(): Monday is 0
Weekday(d) == (d - 1) % 7

\* date.strftime("%Y-%m"): the month a day is in, as the index of the month
MonthOf(d) ==
    CHOOSE m \in 1..(Len(MonthStarts) - 1) :
        MonthStarts[m] <= d /\ d < MonthStarts[m + 1]

\* date.replace(day=1)
FirstOfMonth(d) == MonthStarts[MonthOf(d)]

\* isinstance(checkin, dict) and checkin.get("time_spent")
IsTimed(c) == c.kind = "dict" /\ Truthy(Get(c.time_spent))

\* the minutes of the timed check-ins of one habit
HabitTime(h) ==
    SumInts([i \in 1..Len(SelectSeq(h.check_ins, IsTimed)) |->
                SelectSeq(h.check_ins, IsTimed)[i].time_spent])

\* the timed check-ins of the habits, in the order the loops visit them
RECURSIVE TimedCheckins(_)
TimedCheckins(hs) ==
    IF hs = << >> THEN << >>
    ELSE SelectSeq(hs[1].check_ins, IsTimed) \o TimedCheckins(Tail(hs))

\* BucketKey with the week taken to start on Sunday
BucketKeySundayWeek(breakdown, d) ==
    IF breakdown = "daily" THEN d
    ELSE IF breakdown = "weekly" THEN d - (d % 7)
    ELSE MonthOf(d)

\* the key of a check-in date in the daily, weekly or monthly breakdown
BucketKey(breakdown, d) ==
    IF breakdown = "daily" THEN d
    ELSE IF breakdown = "weekly" THEN d - Weekday(d)
    ELSE MonthOf(d)

\* defaultdict(float)[k] += v
DictAdd(d, k, v) == DictPut(d, k, (IF DictHas(d, k) THEN DictGet(d, k) ELSE 0) + v)

\* dict.get(k, 0)
DictGetOr0(d, k) == IF DictHas(d, k) THEN DictGet(d, k) ELSE 0

\* one breakdown: a check-in whose date does not parse is passed over
RECURSIVE Breakdown(_, _, _)
Breakdown(cs, breakdown, acc) ==
    IF cs = << >> THEN acc
    ELSE Breakdown(Tail(cs), breakdown,
            IF Truthy(cs[1].date) /\ Parseable(cs[1].date)
            THEN DictAdd(acc, BucketKey(breakdown, cs[1].date), cs[1].time_spent)
            ELSE acc)

\* by_habit: an entry per title, for the habits with time recorded
RECURSIVE ByHabit(_, _)
ByHabit(hs, acc) ==
    IF hs = << >> THEN acc
    ELSE ByHabit(Tail(hs),
            IF HabitTime(hs[1]) > 0
            THEN DictPut(acc, hs[1].title,
                    [total_minutes |-> HabitTime(hs[1]),
                     total_hours |-> Round2(HabitTime(hs[1]), 60),
                     check_ins |-> Len(SelectSeq(hs[1].check_ins, IsTimed))])
            ELSE acc)

\* by_goal in minutes: the time of a habit goes to the title of its goal
RECURSIVE ByGoal(_, _, _)
ByGoal(hs, gs, acc) ==
    IF hs = << >> THEN acc
    ELSE ByGoal(Tail(hs), gs,
            IF /\ HabitTime(hs[1]) > 0
               /\ Truthy(Get(hs[1].goal_id))
               /\ FindById(gs, hs[1].goal_id) # 0
            THEN DictAdd(acc, gs[FindById(gs, hs[1].goal_id)].title, HabitTime(hs[1]))
            ELSE acc)

\* the number of points of each trends series
TrendDays == 30
TrendWeeks == 12
TrendMonths == 12

\* trends: the time of a point is in sixtieths of an hour (minutes / 60)
Trends(period, daily, weekly, monthly) ==
    IF period = "daily"
    THEN [k \in 1..TrendDays |->
            LET trend_date == Today - (TrendDays - k)
            IN [key |-> trend_date, time |-> DictGetOr0(daily, trend_date)]]
    ELSE IF period = "weekly"
    THEN [k \in 1..TrendWeeks |->
            LET week_date == Today - 7 * (TrendWeeks - k)
                week_key == week_date - Weekday(week_date)
            IN [key |-> week_key, time |-> DictGetOr0(weekly, week_key)]]
    ELSE [k \in 1..TrendMonths |->
            LET month_date == FirstOfMonth(Today) - 30 * (TrendMonths - k)
                month_key == MonthOf(month_date)
            IN [key |-> month_key, time |-> DictGetOr0(monthly, month_key)]]

TimeAnalytics(hs, gs, period) ==
    LET time_tracking_habits == SelectSeq(hs, LAMBDA h : h.track_time)
        timed == TimedCheckins(time_tracking_habits)
        daily == Breakdown(timed, "daily", << >>)
        weekly == Breakdown(timed, "weekly", << >>)
        monthly == Breakdown(timed, "monthly", << >>)
        goal_minutes == ByGoal(time_tracking_habits, gs, << >>)
    IN IF time_tracking_habits = << >>
       THEN [kind |-> "time", raised |-> FALSE, period |-> period,
             total_time |-> 0, by_habit |-> << >>, by_goal |-> << >>,
             daily_breakdown |-> << >>, weekly_breakdown |-> << >>,
             monthly_breakdown |-> << >>, trends |-> << >>]
       ELSE [kind |-> "time", raised |-> FALSE, period |-> period,
             total_time |-> SumInts([i \in 1..Len(timed) |-> timed[i].time_spent]),
             by_habit |-> ByHabit(time_tracking_habits, << >>),
             by_goal |-> [i \in 1..Len(goal_minutes) |->
                            [key |-> goal_minutes[i].key,
                             val |-> Round2(goal_minutes[i].val, 60)]],
             daily_breakdown |-> daily,
             weekly_breakdown |-> weekly,
             monthly_breakdown |-> monthly,
             trends |-> Trends(period, daily, weekly, monthly)]

\* get_time_analytics that also drops from habits.json the check-ins
\* whose date does not parse
get_time_analytics_pruning(period) ==
    /\ report' = TimeAnalytics(habits, goals, period)
    /\ lastOp' = Op("get_time_analytics", Null, Null)
    /\ habits' = [h \in 1..Len(habits) |->
                    [habits[h] EXCEPT !.check_ins =
                        SelectSeq(@, LAMBDA c : Parseable(c.date))]]
    /\ UNCHANGED <<tasks, goals, categories, freed, diskVars>>

get_time_analytics(period) ==
    /\ report' = TimeAnalytics(habits, goals, period)
    /\ lastOp' = Op("get_time_analytics", Null, Null)
    /\ UNCHANGED <<tasks, goals, habits, categories, freed, diskVars>>

task_priority_levels == <<"Now", "Next", "Later">>

Uncategorized(t) == t.category = NoCategory \/ t.category = ""

RECURSIVE TaskCategoryStats(_, _, _)
TaskCategoryStats(cats, ts, acc) ==
    IF cats = << >>
    THEN IF Count(ts, Uncategorized) > 0
         THEN DictPut(acc, "Uncategorized", TaskStats(Filter(ts, Uncategorized)))
         ELSE acc
    ELSE TaskCategoryStats(Tail(cats), ts,
            DictPut(acc, cats[1],
                    TaskStats(Filter(ts, LAMBDA t : t.category = cats[1]))))

RECURSIVE TaskGoalStats(_, _, _)
TaskGoalStats(gs, ts, acc) ==
    IF gs = << >> THEN acc
    ELSE LET goal_tasks == Filter(ts, LAMBDA t : Get(t.goal_id) = gs[1].id)
         IN TaskGoalStats(Tail(gs), ts,
                DictPut(acc, gs[1].id,
                        [goal_name |-> gs[1].title] @@ TaskStats(goal_tasks)))

CategoryItems(category_stats) ==
    [i \in 1..Len(category_stats) |->
        [name |-> category_stats[i].key, val |-> category_stats[i].val]]

\* HasDue without the test that the task is not completed
HasDueDoneOrNot(t) == Truthy(t.due_date) /\ Parseable(t.due_date)

HasDue(t) == Truthy(t.due_date) /\ ~t.completed /\ Parseable(t.due_date)

\* completed - created in whole days, for the tasks that have both
CompletionDays(ts) ==
    LET done == Filter(ts, LAMBDA t : Truthy(t.completed_at) /\ Truthy(t.created_at)
                                      /\ t.completed_at - t.created_at >= 0)
    IN [i \in 1..Len(done) |-> done[i].completed_at - done[i].created_at]

TaskAnalytics(ts, cats, gs) ==
    LET category_stats == TaskCategoryStats(cats, ts, << >>)
        goal_stats == TaskGoalStats(gs, ts, << >>)
        with_goals == SumSeq(gs, LAMBDA g :
                          Count(ts, LAMBDA t : Get(t.goal_id) = g.id))
        most == MostProductive(CategoryItems(category_stats), NoName, 0)
        big == MostTasks(CategoryItems(category_stats), NoName, 0)
        days == CompletionDays(ts)
    IN [kind |-> "task", raised |-> FALSE,
        overall |-> TaskStats(ts),
        by_category |-> category_stats,
        by_priority |-> [i \in 1..Len(task_priority_levels) |->
            [key |-> task_priority_levels[i],
             val |-> TaskStats(Filter(ts,
                        LAMBDA t : t.priority = task_priority_levels[i]))]],
        by_goal |-> [goals |-> goal_stats,
                     tasks_with_goals |-> with_goals,
                     tasks_without_goals |->
                         Count(ts, LAMBDA t : ~Truthy(Get(t.goal_id))),
                     total_goals |-> Len(gs)],
        time_stats |-> [overdue_count |->
                            Count(ts, LAMBDA t : HasDue(t) /\ ParseDate(t.due_date) < now),
                        due_soon_count |->
                            Count(ts, LAMBDA t : HasDue(t)
                                /\ DeltaDays(ParseDate(t.due_date) - now) >= 0
                                /\ DeltaDays(ParseDate(t.due_date) - now) <= 7),
                        completed_today |->
                            Count(ts, LAMBDA t : Truthy(t.completed_at)
                                                 /\ t.completed_at = Today),
                        created_today |->
                            Count(ts, LAMBDA t : Truthy(t.created_at)
                                                 /\ t.created_at = Today),
                        avg_completion_days |->
                            IF Len(days) > 0 THEN Round1(SumInts(days), Len(days)) ELSE 0],
        productivity |-> [most_productive |-> most.name,
                          most_productive_completion_rate |->
                              IF most.name # NoName THEN most.rate ELSE 0,
                          with_most_tasks |-> big.name,
                          max_tasks |-> big.max,
                          distribution |->
                              Distribution(CategoryItems(category_stats), Len(ts), << >>)]]

get_task_analytics ==
    /\ report' = TaskAnalytics(tasks, categories, goals)
    /\ lastOp' = IF lastOp.op = "delete_goal"
                 THEN [lastOp EXCEPT !.op = "get_analytics"]
                 ELSE Op("get_analytics", Null, Null)
    /\ UNCHANGED <<tasks, goals, habits, categories, freed, diskVars>>

\* ------------------------------------------------- data_storage.py files
DATA_FILE == "tasks.json"
GOALS_FILE == "goals.json"
CATEGORIES_FILE == "categories.json"
HABITS_FILE == "habits.json"

\* temp_file = DATA_FILE + '.tmp'
TempOf(file) == IF file = DATA_FILE THEN "tasks.json.tmp" ELSE "goals.json.tmp"

Files == {DATA_FILE, GOALS_FILE, CATEGORIES_FILE}
Paths == {DATA_FILE, GOALS_FILE, CATEGORIES_FILE, TempOf(DATA_FILE), TempOf(GOALS_FILE),
          HABITS_FILE}
Inodes == 1..8

\* the inode numbers the files of one data file are given
Pool(file) == IF file = DATA_FILE THEN 1..3
              ELSE IF file = GOALS_FILE THEN 4..6
              ELSE IF file = CATEGORIES_FILE THEN {7}
              ELSE {8}
Procs == {1, 2}

\* json.dump(list): the text, token by token
Dump(list) == <<"[">> \o list \o <<"]">>

\* json.load succeeds on the text of exactly one list
WellFormed(text) ==
    /\ Len(text) >= 2
    /\ text[1] = "[" /\ text[Len(text)] = "]"
    /\ \A i \in 2..(Len(text) - 1) : text[i] \notin {"[", "]"}

\* load_tasks / load_goals / load_categories of a file that is missing or
\* holds text written by json.dump (ASCII): [] when it does not parse
Load(file) ==
    IF names[file] = 0 THEN << >>
    ELSE IF WellFormed(inode[names[file]])
         THEN SubSeq(inode[names[file]], 2, Len(inode[names[file]]) - 1)
         ELSE << >>

\* bytes that are not UTF-8, as one token of a file's content
Undecodable == "<0xff>"

\* f.read() of a file opened in text mode decodes the bytes
Decodes(text) == \A i \in 1..Len(text) : text[i] # Undecodable

\* load_tasks / load_goals / load_habits on whatever the file holds: what
\* the call returns, or that it raised (UnicodeDecodeError is neither a
\* JSONDecodeError nor an IOError)
LoadOutcome(file) ==
    LET missing == names[file] = 0
        text == inode[names[file]]
    IN [kind |-> "load", file |-> file, missing |-> missing,
        valid |-> ~missing /\ Decodes(text) /\ WellFormed(text),
        raised |-> ~missing /\ ~Decodes(text),
        value |-> IF ~missing /\ Decodes(text) /\ WellFormed(text)
                  THEN SubSeq(text, 2, Len(text) - 1)
                  ELSE << >>]

load(file) ==
    /\ report' = LoadOutcome(file)
    /\ lastOp' = Op("load", Null, Null)
    /\ UNCHANGED <<tasks, goals, habits, categories, freed, diskVars>>

Idle == [pc |-> "idle", file |-> "", data |-> << >>, fd |-> 0, pos |-> 0]

\* an inode is kept while a path names it or a process has it open
Referenced(nm, pr, i) ==
    \/ \E path \in Paths : nm[path] = i
    \/ \E p \in Procs : pr[p].fd = i

FreeInode(file) ==
    CHOOSE i \in Pool(file) :
        /\ ~Referenced(names, proc, i)
        /\ \A j \in Pool(file) : ~Referenced(names, proc, j) => i <= j

\* the inodes after a step: the content of an unreferenced one is dropped
Reclaim(nm, pr, ino) == [i \in Inodes |-> IF Referenced(nm, pr, i) THEN ino[i] ELSE << >>]

\* the file is written from outside the program (another program, a
\* restored backup, a failing disk)
damage(file, text) ==
    /\ \A p \in Procs : proc[p].pc = "idle"
    /\ LET i == IF names[file] = 0 THEN FreeInode(file) ELSE names[file]
       IN /\ names' = [names EXCEPT ![file] = i]
          /\ inode' = [inode EXCEPT ![i] = text]
    /\ UNCHANGED <<lock, proc, snapshot>>

\* the file is removed from outside the program
remove(file) ==
    /\ \A p \in Procs : proc[p].pc = "idle"
    /\ names[file] # 0
    /\ names' = [names EXCEPT ![file] = 0]
    /\ inode' = Reclaim([names EXCEPT ![file] = 0], proc, inode)
    /\ UNCHANGED <<lock, proc, snapshot>>

\* a handler calls save_tasks, save_goals or save_categories with a list
call_save(p, file, data) ==
    /\ proc[p].pc = "idle"
    /\ proc' = [proc EXCEPT ![p] = [pc |-> "open", file |-> file, data |-> data,
                                    fd |-> 0, pos |-> 0]]
    /\ snapshot' = [snapshot EXCEPT ![file] = [old |-> Load(file), new |-> data]]
    /\ UNCHANGED <<names, inode, lock>>

\* the path a save writes to: the temp file, or categories.json itself
Target(file) == IF file = CATEGORIES_FILE THEN file ELSE TempOf(file)

\* open(path, 'w'): creates the file, or truncates the one that is there
open_w(p) ==
    /\ proc[p].pc = "open"
    /\ LET path == Target(proc[p].file)
           i == IF names[path] = 0 THEN FreeInode(proc[p].file) ELSE names[path]
       IN /\ names' = [names EXCEPT ![path] = i]
          /\ inode' = [inode EXCEPT ![i] = << >>]
          /\ proc' = [proc EXCEPT ![p].fd = i, ![p].pos = 0,
                        ![p].pc = IF proc[p].file = CATEGORIES_FILE
                                  THEN "write" ELSE "lock"]
    /\ UNCHANGED <<lock, snapshot>>

\* fcntl.flock(f.fileno(), LOCK_EX): waits while another process holds it
flock_ex(p) ==
    /\ proc[p].pc = "lock"
    /\ lock[proc[p].fd] = 0
    /\ lock' = [lock EXCEPT ![proc[p].fd] = p]
    /\ proc' = [proc EXCEPT ![p].pc = "write"]
    /\ UNCHANGED <<names, inode, snapshot>>

\* text with token tok written at offset pos (0-based)
WriteAt(text, pos, tok) ==
    IF pos < Len(text) THEN [text EXCEPT ![pos + 1] = tok]
    ELSE Append(text, tok)

\* json.dump writes the next part of the text through the open file
write(p) ==
    /\ proc[p].pc = "write"
    /\ LET text == Dump(proc[p].data)
           pos == proc[p].pos
       IN /\ inode' = [inode EXCEPT ![proc[p].fd] = WriteAt(@, pos, text[pos + 1])]
          /\ proc' = [proc EXCEPT ![p].pos = pos + 1,
                        ![p].pc = IF pos + 1 < Len(text) THEN "write"
                                  ELSE IF proc[p].file = CATEGORIES_FILE
                                       THEN "close" ELSE "unlock"]
    /\ UNCHANGED <<names, lock, snapshot>>

\* fcntl.flock(f.fileno(), LOCK_UN)
flock_un(p) ==
    /\ proc[p].pc = "unlock"
    /\ lock' = [lock EXCEPT ![proc[p].fd] = 0]
    /\ proc' = [proc EXCEPT ![p].pc = "close"]
    /\ UNCHANGED <<names, inode, snapshot>>

\* leaving the with block closes the file
close(p) ==
    /\ proc[p].pc = "close"
    /\ LET pr == [proc EXCEPT ![p].fd = 0,
                    ![p].pc = IF proc[p].file = CATEGORIES_FILE
                              THEN "idle" ELSE "replace"]
       IN /\ proc' = IF pr[p].pc = "idle" THEN [pr EXCEPT ![p] = Idle] ELSE pr
          /\ inode' = Reclaim(names, pr, inode)
    /\ UNCHANGED <<names, lock, snapshot>>

\* os.replace(temp_file, DATA_FILE); FileNotFoundError without a temp file
replace(p) ==
    /\ proc[p].pc = "replace"
    /\ LET file == proc[p].file
           temp == TempOf(file)
       IN IF names[temp] # 0
          THEN LET nm == [names EXCEPT ![file] = names[temp], ![temp] = 0]
                   pr == [proc EXCEPT ![p] = Idle]
               IN /\ names' = nm
                  /\ proc' = pr
                  /\ inode' = Reclaim(nm, pr, inode)
          ELSE /\ proc' = [proc EXCEPT ![p].pc = "except"]
               /\ UNCHANGED <<names, inode>>
    /\ UNCHANGED <<lock, snapshot>>

\* json.dump raises (IOError): the file is closed on the way out; save_tasks
\* and save_goals go to their except clause, save_categories has none
io_error(p) ==
    /\ proc[p].pc = "write"
    /\ lock' = [i \in Inodes |-> IF lock[i] = p THEN 0 ELSE lock[i]]
    /\ LET pr == IF proc[p].file = CATEGORIES_FILE
                 THEN [proc EXCEPT ![p] = Idle]
                 ELSE [proc EXCEPT ![p].fd = 0, ![p].pc = "except"]
       IN /\ proc' = pr
          /\ inode' = Reclaim(names, pr, inode)
    /\ UNCHANGED <<names, snapshot>>

\* except: remove the temp file if it exists, then re-raise
except(p) ==
    /\ proc[p].pc = "except"
    /\ LET temp == TempOf(proc[p].file)
           nm == [names EXCEPT ![temp] = 0]
           pr == [proc EXCEPT ![p] = Idle]
       IN /\ names' = nm
          /\ proc' = pr
          /\ inode' = Reclaim(nm, pr, inode)
    /\ UNCHANGED <<lock, snapshot>>

\* the process stops inside a save: its file is closed and its lock dropped,
\* whatever it wrote stays on disk
crash(p) ==
    /\ proc[p].pc # "idle"
    /\ lock' = [i \in Inodes |-> IF lock[i] = p THEN 0 ELSE lock[i]]
    /\ LET pr == [proc EXCEPT ![p] = Idle]
       IN /\ proc' = pr
          /\ inode' = Reclaim(names, pr, inode)
    /\ UNCHANGED <<names, snapshot>>

\* the task a process adds, as the text json.dump writes for it
NewTask(p) == IF p = 1 THEN "t1" ELSE "t2"

\* history: the processes that have called add_task, and those whose call
\* raised
Called == IF lastOp.op = "add_task" THEN lastOp.before.called ELSE {}
Raised == IF lastOp.op = "add_task" THEN lastOp.before.raised ELSE {}

\* add_task in a process of its own, first step: tasks = load_tasks()
add_task_load(p) ==
    /\ proc[p].pc = "idle"
    /\ p \notin Called
    /\ proc' = [proc EXCEPT ![p] = [pc |-> "loaded", file |-> DATA_FILE,
                                    data |-> Load(DATA_FILE), fd |-> 0, pos |-> 0]]
    /\ lastOp' = [Op("add_task", p, Null) EXCEPT
                      !.before = [called |-> Called \cup {p}, raised |-> Raised]]
    /\ UNCHANGED <<tasks, goals, habits, categories, freed, report,
                   names, inode, lock, snapshot>>

\* second step: tasks.append(new_task), and save_tasks(tasks) is entered
add_task_save(p) ==
    /\ proc[p].pc = "loaded"
    /\ proc' = [proc EXCEPT ![p].pc = "open",
                            ![p].data = Append(@, NewTask(p))]
    /\ snapshot' = [snapshot EXCEPT ![DATA_FILE] =
                       [old |-> Load(DATA_FILE),
                        new |-> Append(proc[p].data, NewTask(p))]]
    /\ UNCHANGED <<tasks, goals, habits, categories, freed, lastOp, report,
                   names, inode, lock>>

\* save_tasks re-raises from its except clause: the add_task call raises
add_task_raise(p) ==
    /\ except(p)
    /\ lastOp' = [lastOp EXCEPT !.before.raised = @ \cup {p}]
    /\ UNCHANGED <<tasks, goals, habits, categories, freed, report>>

InitDisk ==
    /\ names = [path \in Paths |-> 0]
    /\ inode = [i \in Inodes |-> << >>]
    /\ lock = [i \in Inodes |-> 0]
    /\ proc = [p \in Procs |-> Idle]
    /\ snapshot = [file \in Files |->
                      [old |-> << >>, new |-> << >>]]

\* a habit written before check-ins became objects: plain date strings
LegacyHabit(dates) ==
    [id |-> 1, title |-> "h", priority |-> "Next",
     check_ins |-> [i \in 1..Len(dates) |-> StrCheckin(dates[i])],
     track_time |-> FALSE, created_at |-> 1, goal_id |-> Null]

\* the store on first run, with no habits or those of one of the stores
InitStore(stores) ==
    /\ tasks = << >>
    /\ goals = << >>
    /\ habits \in {<< >>} \cup stores
    /\ categories = << >>
    /\ freed = [tasks |-> {}, goals |-> {}, habits |-> {}]
    /\ lastOp = NoOp
    /\ report = NoReport
    /\ InitDisk

\* first run, or a habits.json left by the earlier format
Init == InitStore({<<LegacyHabit(<<9>>)>>})

\* the store handlers and both reports, with records linked to goals
Next ==
    \/ \E g \in {Null, 1} : add_task("Next", Null, g)
    \/ \E t \in 1..MaxTasks : delete_task(t)
    \/ add_goal("g")
    \/ \E g \in 1..MaxGoals : delete_goal(g)
    \/ \E g \in {Null, 1} : Len(habits) < MaxLinkedHabits /\ add_habit("h", "Next", g, FALSE)
    \/ \E h \in 1..MaxHabits : delete_habit(h)
    \/ get_task_analytics
    \/ get_habit_analytics

Spec == Init /\ [][Next]_vars

\* main.py: tasks in categories, completed or not, and both reports
NextDone ==
    \/ \E c \in {"", "c"} : main_add_task("Next", Null, c, Null)
    \/ \E t \in 1..MaxMainTasks : toggle_task(t)
    \/ get_task_analytics
    \/ get_habit_analytics

SpecDone == Init /\ [][NextDone]_vars

\* habits.py: check-ins of the habits, and the habit report
CheckDates == {2, 9, Today}
TimesSpent == {Null, 30}

InitHabits == InitStore({<<LegacyHabit(<<9>>)>>, <<LegacyHabit(<<2, Today>>)>>})

\* track_time is stored by add_habit and read by no handler of this
\* specification; the legacy store is extended with untimed habits only
NextHabits ==
    \/ add_habit("h", "Next", Null, FALSE)
    \/ \E h \in 1..MaxHabits, d \in CheckDates, ts \in TimesSpent :
           check_in_habit(h, d, ts)
    \/ \E h \in 1..MaxHabits, d \in CheckDates : uncheck_habit(h, d)
    \/ get_habit_analytics

SpecHabits == InitHabits /\ [][NextHabits]_vars

\* habits.py from the first run on: every check-in is an object
InitFresh == InitStore({})

NextFresh ==
    \/ \E tt \in BOOLEAN : add_habit("h", "Next", Null, tt)
    \/ \E h \in 1..MaxHabits, d \in CheckDates, ts \in TimesSpent :
           check_in_habit(h, d, ts)
    \/ \E h \in 1..MaxHabits, d \in CheckDates : uncheck_habit(h, d)
    \/ get_habit_analytics

SpecFresh == InitFresh /\ [][NextFresh]_vars

\* data_storage.py: one process saving lists, failing or stopping anywhere
Lists == {<<"a">>, <<"b", "c">>}
\* no save has been made to any other file: the files share no path, and
\* the saves of one run all go to the same file
OnlyFile(file) ==
    \A other \in Files \ {file} :
        names[other] = 0 /\ snapshot[other] = [old |-> << >>, new |-> << >>]
            /\ \A p \in Procs : proc[p].file # other
storeVars == <<tasks, goals, habits, categories, freed, lastOp, report>>

NextCrash ==
    \/ \E file \in Files, data \in Lists :
           OnlyFile(file) /\ call_save(1, file, data) /\ UNCHANGED storeVars
    \/ open_w(1) /\ UNCHANGED storeVars
    \/ flock_ex(1) /\ UNCHANGED storeVars
    \/ write(1) /\ UNCHANGED storeVars
    \/ flock_un(1) /\ UNCHANGED storeVars
    \/ close(1) /\ UNCHANGED storeVars
    \/ replace(1) /\ UNCHANGED storeVars
    \/ io_error(1) /\ UNCHANGED storeVars
    \/ except(1) /\ UNCHANGED storeVars
    \/ crash(1) /\ UNCHANGED storeVars

SpecCrash == InitFresh /\ [][NextCrash]_vars

\* data_storage.py: two processes saving lists to the same file, every save
\* running to its end (no I/O failure, no stop)
RaceFiles == {DATA_FILE, GOALS_FILE}

NextRace ==
    \/ \E p \in Procs, file \in RaceFiles, data \in Lists :
           OnlyFile(file) /\ call_save(p, file, data) /\ UNCHANGED storeVars
    \/ \E p \in Procs : open_w(p) /\ UNCHANGED storeVars
    \/ \E p \in Procs : flock_ex(p) /\ UNCHANGED storeVars
    \/ \E p \in Procs : write(p) /\ UNCHANGED storeVars
    \/ \E p \in Procs : flock_un(p) /\ UNCHANGED storeVars
    \/ \E p \in Procs : close(p) /\ UNCHANGED storeVars
    \/ \E p \in Procs : replace(p) /\ UNCHANGED storeVars
    \/ \E p \in Procs : except(p) /\ UNCHANGED storeVars

SpecRace == InitFresh /\ [][NextRace]_vars

\* todo.py, goals.py, habits.py: records linked to goals, relinked and
\* unlinked, and both reports; a goal id is any integer the caller passes
GoalRefs == {Null, 0, 1}

NextLink ==
    \/ \E g \in GoalRefs : add_task("Next", Null, g)
    \/ \E t \in 1..MaxTasks, g \in GoalRefs : update_task(t, NoText, Null, g)
    \/ add_goal("g")
    \/ \E g \in 1..MaxGoals : delete_goal(g)
    \/ \E g \in GoalRefs : Len(habits) < MaxLinkedHabits /\ add_habit("h", "Next", g, FALSE)
    \/ \E h \in 1..MaxLinkedHabits, g \in GoalRefs :
           update_habit(h, NoText, NoText, g, << >>)
    \/ get_task_analytics
    \/ get_habit_analytics

SpecLink == InitFresh /\ [][NextLink]_vars

\* habits.py on a habits.json of the earlier format whose habit has been
\* checked in on each of the last LongStreak days
LongDates == [i \in 1..LongStreak |-> Today - LongStreak + i]

InitLong == InitStore({<<LegacyHabit(LongDates)>>})

NextLong ==
    \/ add_habit("h", "Next", Null, FALSE)
    \/ \E h \in 1..MaxHabits, ts \in TimesSpent : check_in_habit(h, Today, ts)
    \/ \E h \in 1..MaxHabits : uncheck_habit(h, Today)
    \/ get_habit_analytics
    \/ get_task_analytics

SpecLong == InitLong /\ [][NextLong]_vars

\* main.py, goals.py, habits.py: records come and go, so that reports are
\* taken over no records and over goals and categories left without any
NextEmpty ==
    \/ \E c \in {"", "c"}, g \in {Null, 1} :
           Len(tasks) < MaxTasks /\ main_add_task("Next", Null, c, g)
    \/ \E t \in 1..MaxTasks : toggle_task(t)
    \/ \E t \in 1..MaxTasks : delete_task(t)
    \/ add_goal("g")
    \/ \E g \in {Null, 1} : Len(habits) < MaxLinkedHabits /\ add_habit("h", "Next", g, FALSE)
    \/ \E h \in 1..MaxLinkedHabits : delete_habit(h)
    \/ \E g \in 1..MaxGoals : get_goal_progress(g)
    \/ get_task_analytics
    \/ get_habit_analytics

SpecEmpty == InitFresh /\ [][NextEmpty]_vars

\* main.py: tasks with due dates (none, malformed, yesterday, tomorrow,
\* in 8 days, in 9 days), completed or not, and the task report
DueDates == {Null, BadDate, Today - 1, Today + 1, Today + 8, Today + 9}

NextDue ==
    \/ \E d \in DueDates :
           Len(tasks) < MaxDueTasks /\ main_add_task("Next", d, "", Null)
    \/ \E t \in 1..MaxDueTasks : toggle_task(t)
    \/ get_task_analytics

SpecDue == InitFresh /\ [][NextDue]_vars

\* analytics.py: habits that track time or not, two of them of one title,
\* checked in with minutes on days of two weeks and two months
\* and on a date that does not parse, and the time report of each period
MaxTimedHabits == 2
TimeHabits == {<<"h", TRUE>>, <<"k", TRUE>>, <<"h", FALSE>>}
TimeDates == {2, Today, BadDate}
Minutes == {Null, 90}
Periods == {"daily", "weekly", "monthly"}

NextTime ==
    \/ \E th \in TimeHabits :
           Len(habits) < MaxTimedHabits /\ add_habit(th[1], "Next", 1, th[2])
    \/ add_goal("g")
    \/ \E h \in 1..MaxTimedHabits, d \in TimeDates : check_in_habit(h, d, 90)
    \/ \E period \in Periods : get_time_analytics(period)

SpecTime == InitFresh /\ [][NextTime]_vars

\* analytics.py: the check-ins of habits of one title, and the time report
MaxBucketHabits == 1

NextBuckets ==
    \/ \E tt \in BOOLEAN :
           Len(habits) < MaxBucketHabits /\ add_habit("h", "Next", Null, tt)
    \/ \E h \in 1..MaxBucketHabits, d \in TimeDates, ts \in Minutes :
           check_in_habit(h, d, ts)
    \/ \E h \in 1..MaxBucketHabits, d \in TimeDates : uncheck_habit(h, d)
    \/ \E period \in Periods : get_time_analytics(period)

SpecBuckets == InitFresh /\ [][NextBuckets]_vars

\* todo.py, goals.py, habits.py, main.py, analytics.py: records of every
\* store, and the four reports taken over them
ReadDates == {Today, BadDate}

NextRead ==
    \/ \E g \in {Null, 1} : add_task("Next", Null, g)
    \/ \E t \in 1..MaxTasks : toggle_task(t)
    \/ add_goal("g")
    \/ Len(habits) < MaxLinkedHabits /\ add_habit("h", "Next", 1, TRUE)
    \/ \E h \in 1..MaxLinkedHabits, d \in ReadDates : check_in_habit(h, d, 90)
    \/ get_task_analytics
    \/ get_habit_analytics
    \/ \E g \in 1..MaxGoals : get_goal_progress(g)
    \/ \E period \in Periods : get_time_analytics(period)

SpecRead == InitFresh /\ [][NextRead]_vars

\* data_storage.py: the three record files holding a list, a list cut
\* short, nothing, or bytes that are not UTF-8, and the loads of them
LoadFiles == {DATA_FILE, GOALS_FILE, HABITS_FILE}
Texts == {<<"[", "a", "]">>, <<"[", "a">>, << >>, <<Undecodable, "[", "]">>}

NextLoad ==
    \/ \E file \in LoadFiles, text \in Texts :
           damage(file, text) /\ UNCHANGED storeVars
    \/ \E file \in LoadFiles : remove(file) /\ UNCHANGED storeVars
    \/ \E file \in LoadFiles : load(file)

SpecLoad == InitFresh /\ [][NextLoad]_vars

\* main.py, todo.py, habits.py: tasks and habits of a priority that both
\* reports list, that only the habit report lists, or that neither lists,
\* and both reports
MaxPriorityTasks == 2
Priorities == {"Next", "Today", "Urgent"}

NextPriority ==
    \/ \E p \in Priorities :
           Len(tasks) < MaxPriorityTasks /\ main_add_task(p, Null, "", Null)
    \/ \E t \in 1..MaxPriorityTasks, p \in Priorities : update_task(t, p, Null, Null)
    \/ \E p \in Priorities : add_habit("h", p, Null, FALSE)
    \/ get_task_analytics
    \/ get_habit_analytics

SpecPriority == InitFresh /\ [][NextPriority]_vars

\* todo.py: tasks added, updated in every field update_task takes, and
\* completed and uncompleted
NextToggle ==
    \/ \E g \in GoalRefs : add_task("Next", Null, g)
    \/ \E t \in 1..MaxTasks, p \in {NoText, "Now", "Later"},
          d \in {Null, Today - 1, Today + 1}, g \in GoalRefs :
           update_task(t, p, d, g)
    \/ \E t \in 1..MaxTasks : toggle_task(t)

SpecToggle == InitFresh /\ [][NextToggle]_vars

\* todo.py, data_storage.py: two processes each calling add_task once, the
\* steps of the two calls interleaved in every way
NextAdd ==
    \/ \E p \in Procs : add_task_load(p)
    \/ \E p \in Procs : add_task_save(p)
    \/ \E p \in Procs : open_w(p) /\ UNCHANGED storeVars
    \/ \E p \in Procs : flock_ex(p) /\ UNCHANGED storeVars
    \/ \E p \in Procs : write(p) /\ UNCHANGED storeVars
    \/ \E p \in Procs : flock_un(p) /\ UNCHANGED storeVars
    \/ \E p \in Procs : close(p) /\ UNCHANGED storeVars
    \/ \E p \in Procs : replace(p) /\ UNCHANGED storeVars
    \/ \E p \in Procs : add_task_raise(p)

SpecAdd == InitFresh /\ [][NextAdd]_vars

\* habits.py: a habit checked in and unchecked on the days around today, or
\* on a date that does not parse, and its streak
StreakDates == {Today - 3, Today - 2, Today - 1, Today, Today + 1, BadDate}

NextStreak ==
    \/ Len(habits) < MaxLinkedHabits /\ add_habit("h", "Next", Null, FALSE)
    \/ \E h \in 1..MaxLinkedHabits, d \in StreakDates : check_in_habit(h, d, Null)
    \/ \E h \in 1..MaxLinkedHabits, d \in StreakDates : uncheck_habit(h, d)
    \/ \E h \in 1..MaxLinkedHabits : get_habit_streak(h)

SpecStreak == InitFresh /\ [][NextStreak]_vars

\* ---------------------------------------------------------------- claims
Produced == report.kind \in {"task", "habit"} /\ ~report.raised

Distinct(s) == \A i, j \in 1..Len(s) : i # j => s[i].id # s[j].id

\* C1: the records of a store have distinct ids, and an id freed by a
\* deletion is not the id of any record created later
C1_IdsDistinctNeverReused ==
    /\ Distinct(tasks) /\ Distinct(goals) /\ Distinct(habits)
    /\ Ids(tasks) \cap freed.tasks = {}
    /\ Ids(goals) \cap freed.goals = {}
    /\ Ids(habits) \cap freed.habits = {}

\* C2: right after delete_goal(g) no task and no habit has goal_id = g
C2_DeleteGoalClearsAllReferences ==
    lastOp.op = "delete_goal" =>
        /\ \A i \in 1..Len(tasks) : Get(tasks[i].goal_id) # lastOp.arg
        /\ \A i \in 1..Len(habits) : Get(habits[i].goal_id) # lastOp.arg

\* C3: a habit has at most one check-in per date, and a check-in on a date
\* that already has an entry leaves the length of check_ins unchanged
C3_OneCheckinPerDate ==
    /\ \A h \in 1..Len(habits) : \A i, j \in 1..Len(habits[h].check_ins) :
           i # j => habits[h].check_ins[i].date # habits[h].check_ins[j].date
    /\ (lastOp.op = "check_in_habit" /\ lastOp.before.existing) =>
           Len(habits[FindById(habits, lastOp.arg)].check_ins) = lastOp.before.len

\* a habit created by add_habit (its list started empty) is checked in
\* again on a date it already has, among at least two entries
C3_Witness ==
    /\ lastOp.op = "check_in_habit"
    /\ lastOp.arg >= 2
    /\ lastOp.before.existing
    /\ Len(habits[FindById(habits, lastOp.arg)].check_ins) >= 2

\* C4: an analytics call always returns a report, it never raises
C4_AnalyticsNeverRaise == ~report.raised

\* C5: in every report tasks_with_goals + tasks_without_goals = overall.total
C5_GoalCountsSumToTotal ==
    Produced =>
        report.by_goal.tasks_with_goals + report.by_goal.tasks_without_goals
            = report.overall.total

\* C6: in the report taken right after delete_goal(g), g has no entry and the
\* records that referenced g have joined the records without a goal
C6_DeletedGoalReclassified ==
    (Produced /\ lastOp.op = "get_analytics" /\ lastOp.arg # Null) =>
        /\ ~DictHas(report.by_goal.goals, lastOp.arg)
        /\ report.by_goal.tasks_without_goals =
               IF report.kind = "task"
               THEN lastOp.before.tasks_without + lastOp.before.tasks
               ELSE lastOp.before.habits_without + lastOp.before.habits

\* C7 as stated: completed + incomplete = total in the task report and in
\* the habit report, for every non-empty record set
C7_CompletedPlusIncomplete ==
    (Produced /\ report.overall.total > 0) =>
        report.overall.completed + report.overall.incomplete = report.overall.total

\* C7 amended: completed + incomplete = total in the task report; in the
\* habit report incomplete = total and completed is the number of check-ins
C7_PerEntityIncomplete ==
    /\ (Produced /\ report.kind = "task") =>
           report.overall.completed + report.overall.incomplete = report.overall.total
    /\ (Produced /\ report.kind = "habit") =>
           /\ report.overall.incomplete = report.overall.total
           /\ report.overall.total = Len(habits)
           /\ report.overall.completed = SumSeq(habits, LAMBDA h : Len(h.check_ins))

C7_Witness ==
    /\ Produced /\ report.kind = "habit"
    /\ report.overall.total > 0
    /\ report.overall.completed > 0

\* the group a report should name as most productive: the first, in
\* iteration order, of the best rate among the groups of at least 3
ExpectedMostProductive(items) ==
    LET qualifying == {i \in 1..Len(items) : items[i].val.total >= 3}
        best == {i \in qualifying : \A j \in qualifying :
                    items[j].val.completion_percentage
                        <= items[i].val.completion_percentage}
    IN IF qualifying = {} THEN NoName
       ELSE items[CHOOSE i \in best : \A j \in best : i <= j].name

\* C8: most_productive is the first group of the highest rate among the
\* groups with total >= 3, and None only when no group has total >= 3
C8_MostProductiveIsFirstBest ==
    Produced =>
        report.productivity.most_productive =
            ExpectedMostProductive(IF report.kind = "task"
                                   THEN CategoryItems(report.by_category)
                                   ELSE GoalItems(report.by_goal.goals))

HasCheckinOn(h, d) == \E i \in 1..Len(h.check_ins) : h.check_ins[i].date = d

\* C9: in the habit report completed_today counts the habits with a check-in
\* dated today and overdue_count the habits without one
C9_CheckedInTodayCounted ==
    (Produced /\ report.kind = "habit") =>
        /\ report.time_stats.completed_today =
               Count(habits, LAMBDA h : HasCheckinOn(h, Today))
        /\ report.time_stats.overdue_count =
               Count(habits, LAMBDA h : ~HasCheckinOn(h, Today))

\* C10: whatever point a save has reached, failed at or stopped at, a load
\* of its file returns the complete list from before the save or the
\* complete list the save was given
C10_SavesAreAtomic ==
    \A file \in Files :
        Load(file) \in {snapshot[file].old, snapshot[file].new}

\* C11: two processes saving the same file concurrently: no save ends in
\* its except clause (it would re-raise), and once both are back from their
\* saves the data file, if any save got to write it, loads as the complete
\* list given to one of the calls
C11_ConcurrentSavesSafe ==
    /\ \A p \in Procs : proc[p].pc # "except"
    /\ \A file \in RaceFiles :
           ((\A p \in Procs : proc[p].pc = "idle") /\ names[file] # 0)
               => Load(file) \in Lists

\* C12: right after update_task(id, goal_id=None), or update_habit(id,
\* goal_id=None), on a record linked to a goal, that record's goal_id is null
C12_UpdateWithNoneUnlinks ==
    (lastOp.op \in {"update_task", "update_habit"} /\ lastOp.before.linked
        /\ lastOp.arg2 = Null) =>
        LET s == IF lastOp.op = "update_task" THEN tasks ELSE habits
        IN Get(s[FindById(s, lastOp.arg)].goal_id) = Null

\* C13: right after a check_in_habit on a date that already had an entry,
\* the entry of that date carries the date and the time_spent of this call
\* (no time_spent when the call gave none or the habit tracks no time)
C13_RecheckinOverwrites ==
    (lastOp.op = "check_in_habit" /\ lastOp.before.existing) =>
        LET habit == habits[FindById(habits, lastOp.arg)]
            entry == habit.check_ins[ExistingCheckin(habit.check_ins, lastOp.arg2)]
            given == lastOp.before.time_spent
        IN /\ entry.date = lastOp.arg2
           /\ Get(entry.time_spent) =
                  IF given # Null /\ habit.track_time THEN given ELSE Null

\* the records a report is about
Reported == IF report.kind = "task" THEN tasks ELSE habits

C15_GoalExistsAtWrite ==
    (/\ lastOp.op \in {"add_task", "update_task", "add_habit", "update_habit"}
     /\ lastOp.op \in {"update_task", "update_habit"} => lastOp.before.found
     /\ lastOp.arg2 # Null) =>
        lastOp.arg2 \in Ids(goals)

\* the values of a distribution dict, in hundredths of a percent
DistributionValues ==
    [i \in 1..Len(report.productivity.distribution) |->
        report.productivity.distribution[i].val]

\* C16: in every report the distribution values sum to 100 (10000
\* hundredths), within half a hundredth per group, when there are records,
\* and to 0 when there are none
C16_DistributionSumsTo100 ==
    Produced =>
        LET sum == SumInts(DistributionValues)
        IN IF report.overall.total > 0
           THEN /\ sum - 10000 <= Len(DistributionValues)
                /\ 10000 - sum <= Len(DistributionValues)
           ELSE sum = 0

\* the completion_percentage fields of a report, in hundredths
Percentages ==
    {report.overall.completion_percentage}
    \cup {report.by_priority[i].val.completion_percentage :
              i \in 1..Len(report.by_priority)}
    \cup {report.by_goal.goals[i].val.completion_percentage :
              i \in 1..Len(report.by_goal.goals)}
    \cup IF report.kind = "task"
         THEN {report.by_category[i].val.completion_percentage :
                  i \in 1..Len(report.by_category)}
         ELSE {}

\* C17: every completion_percentage of a report is between 0 and 100
C17_PercentagesInRange ==
    Produced => \A pct \in Percentages : 0 <= pct /\ pct <= 10000

\* the groups of a report as <<total, completion_percentage>> pairs
Groups ==
    {<<report.overall.total, report.overall.completion_percentage>>}
    \cup {<<report.by_priority[i].val.total,
            report.by_priority[i].val.completion_percentage>> :
              i \in 1..Len(report.by_priority)}
    \cup {<<report.by_goal.goals[i].val.total,
            report.by_goal.goals[i].val.completion_percentage>> :
              i \in 1..Len(report.by_goal.goals)}
    \cup IF report.kind = "task"
         THEN {<<report.by_category[i].val.total,
                 report.by_category[i].val.completion_percentage>> :
                  i \in 1..Len(report.by_category)}
         ELSE {}

\* C18: a group of total 0 has completion_percentage 0, in the reports and
\* in get_goal_progress; a report over no records has every percentage and
\* every distribution value 0 and names no most productive group
C18_ZeroTotalZeroPercent ==
    /\ Produced =>
           /\ \A g \in Groups : g[1] = 0 => g[2] = 0
           /\ Reported = << >> =>
                  /\ \A g \in Groups : g[2] = 0
                  /\ \A i \in 1..Len(DistributionValues) : DistributionValues[i] = 0
                  /\ report.productivity.most_productive = NoName
                  /\ report.productivity.most_productive_completion_rate = 0
    /\ (report.kind = "progress" /\ report.total = 0) => report.percentage = 0

\* a task report over no tasks, with a goal and a category left in the store
C18_Witness ==
    /\ Produced /\ report.kind = "task"
    /\ tasks = << >>
    /\ Len(report.by_goal.goals) > 0
    /\ Len(report.by_category) > 0
    /\ Len(report.productivity.distribution) > 0

\* C19: due_soon_count is the number of not-completed tasks whose due date
\* d satisfies now <= d <= now + 7 days (14 half days)
C19_DueSoonWithinSevenDays ==
    (Produced /\ report.kind = "task") =>
        report.time_stats.due_soon_count =
            Count(tasks, LAMBDA t :
                /\ ~t.completed
                /\ t.due_date \notin {Null, BadDate}
                /\ now <= ParseDate(t.due_date)
                /\ ParseDate(t.due_date) <= now + 14)

BreakdownOf(period) ==
    IF period = "daily" THEN report.daily_breakdown
    ELSE IF period = "weekly" THEN report.weekly_breakdown
    ELSE report.monthly_breakdown

\* C21: the trends of a time report have 30 points for "daily", 12 for
\* "weekly" and 12 for "monthly", whatever the habits are, and a point whose
\* bucket has no recorded time has time 0
C21_TrendsHaveEveryPoint ==
    report.kind = "time" =>
        /\ Len(report.trends) =
               IF report.period = "daily" THEN 30 ELSE 12
        /\ \A i \in 1..Len(report.trends) :
               ~DictHas(BreakdownOf(report.period), report.trends[i].key)
                   => report.trends[i].time = 0

\* the minutes checked in, on the days lo .. hi - 1, on the habits that
\* track time
MinutesIn(lo, hi) ==
    SumInts([h \in 1..Len(habits) |->
        IF habits[h].track_time
        THEN SumInts([i \in 1..Len(habits[h].check_ins) |->
                LET c == habits[h].check_ins[i]
                IN IF /\ c.kind = "dict"
                      /\ Get(c.time_spent) \notin {Null, 0}
                      /\ c.date # BadDate
                      /\ lo <= c.date /\ c.date < hi
                   THEN c.time_spent ELSE 0])
        ELSE 0])

SumVals(d) == SumInts([i \in 1..Len(d) |-> d[i].val])

\* C22: in a time report each daily bucket holds the minutes checked in on
\* its date, each weekly bucket is keyed by a Monday and holds the minutes
\* of the seven days from it, each monthly bucket holds the minutes of its
\* month; no bucket is empty, the three breakdowns have the same sum, and
\* that sum is the minutes of all check-ins with a valid date (a check-in
\* with an invalid date is left out, the others of its habit are counted)
C22_BucketsByDayWeekMonth ==
    report.kind = "time" =>
        /\ \A i \in 1..Len(report.daily_breakdown) :
               LET b == report.daily_breakdown[i]
               IN b.val > 0 /\ b.val = MinutesIn(b.key, b.key + 1)
        /\ \A i \in 1..Len(report.weekly_breakdown) :
               LET b == report.weekly_breakdown[i]
               IN /\ Weekday(b.key) = 0
                  /\ b.val > 0 /\ b.val = MinutesIn(b.key, b.key + 7)
        /\ \A i \in 1..Len(report.monthly_breakdown) :
               LET b == report.monthly_breakdown[i]
               IN b.val > 0 /\ b.val = MinutesIn(MonthStarts[b.key],
                                                 MonthStarts[b.key + 1])
        /\ SumVals(report.daily_breakdown) = MinutesIn(MonthStarts[1], BadDate)
        /\ SumVals(report.weekly_breakdown) = SumVals(report.daily_breakdown)
        /\ SumVals(report.monthly_breakdown) = SumVals(report.daily_breakdown)

\* a time report over a habit with timed check-ins in two weeks of two
\* months and a timed check-in whose date does not parse
C22_Witness ==
    /\ report.kind = "time"
    /\ Len(report.weekly_breakdown) = 2
    /\ Len(report.monthly_breakdown) = 2
    /\ \E h \in 1..Len(habits) :
           /\ habits[h].track_time
           /\ \E i \in 1..Len(habits[h].check_ins) :
                  /\ habits[h].check_ins[i].date = BadDate
                  /\ Get(habits[h].check_ins[i].time_spent) = 90
           /\ \E i \in 1..Len(habits[h].check_ins) :
                  /\ habits[h].check_ins[i].date = Today
                  /\ Get(habits[h].check_ins[i].time_spent) = 90

\* C29: in a time report the total_minutes of the by_habit entries sum to
\* total_time
C29_ByHabitSumsToTotal ==
    report.kind = "time" =>
        SumInts([i \in 1..Len(report.by_habit) |->
                    report.by_habit[i].val.total_minutes]) = report.total_time

\* C23: a step that returns a report (get_analytics of tasks or of habits,
\* get_time_analytics, get_goal_progress) leaves the stored tasks, habits,
\* goals and categories, and the files of the data directory, as they were
C23_ReportsAreReadOnly ==
    [][report'.kind # "none" =>
          UNCHANGED <<tasks, habits, goals, categories, names, inode>>]_vars

\* a time report over recorded minutes, one of them on a date that does not
\* parse, with tasks and goals in the store
C23_Witness ==
    /\ report.kind = "time"
    /\ report.total_time > SumVals(report.daily_breakdown)
    /\ report.total_time > 0
    /\ tasks # << >> /\ goals # << >>

\* C24: load_tasks, load_goals and load_habits never raise, and return the
\* empty list when the file is missing or does not hold valid JSON
C24_LoadersNeverRaise ==
    report.kind = "load" =>
        /\ ~report.raised
        /\ (report.missing \/ ~report.valid) => report.value = << >>

\* the priority labels each report is to list
EnumeratedLabels ==
    IF report.kind = "task" THEN {"Now", "Next", "Later"}
    ELSE {"Today", "Now", "Next", "Later", "Someday"}

\* C25: in every report by_priority has one entry per enumerated label, and
\* the totals of the entries plus the number of records whose priority is
\* not an enumerated label make overall.total
C25_PriorityTotalsPartition ==
    Produced =>
        /\ {report.by_priority[i].key : i \in 1..Len(report.by_priority)}
               = EnumeratedLabels
        /\ \A i, j \in 1..Len(report.by_priority) :
               i # j => report.by_priority[i].key # report.by_priority[j].key
        /\ SumInts([i \in 1..Len(report.by_priority) |->
                       report.by_priority[i].val.total])
             + Count(Reported, LAMBDA r : r.priority \notin EnumeratedLabels)
               = report.overall.total

\* a habit report over a habit of a label that only the habit report lists
\* and a habit of a priority that is no label
C25_Witness ==
    /\ Produced /\ report.kind = "habit"
    /\ \E i \in 1..Len(habits) : habits[i].priority = "Today"
    /\ \E i \in 1..Len(habits) : habits[i].priority = "Urgent"
    /\ \E i \in 1..Len(tasks) : tasks[i].priority = "Today"

\* C26: after every step each stored task has completed = true exactly
\* when its completed_at is not null; a toggle_task step turns an incomplete
\* task into a completed one with a timestamp, and a completed task into an
\* incomplete one with completed_at null
C26_CompletedIffTimestamp ==
    [][/\ \A i \in 1..Len(tasks') :
              tasks'[i].completed <=> tasks'[i].completed_at # Null
       /\ lastOp'.op = "toggle_task" =>
              LET i == FindById(tasks, lastOp'.arg)
              IN /\ tasks'[i].completed = ~tasks[i].completed
                 /\ tasks'[i].completed_at =
                        IF tasks[i].completed THEN Null ELSE Today]_vars

\* a task that was updated, then toggled twice
C26_Witness ==
    /\ lastOp.op = "toggle_task"
    /\ \E i \in 1..Len(tasks) :
           /\ tasks[i].id = lastOp.arg
           /\ tasks[i].priority = "Now" /\ tasks[i].due_date = Today + 1
           /\ ~tasks[i].completed /\ tasks[i].completed_at = Null

\* C27: once two concurrent add_task calls have both returned (neither
\* raised), a load of tasks.json holds the task of each
C27_NoLostUpdate ==
    (/\ Called = Procs /\ Raised = {}
     /\ \A p \in Procs : proc[p].pc = "idle") =>
        \A p \in Procs :
            \E i \in 1..Len(Load(DATA_FILE)) : Load(DATA_FILE)[i] = NewTask(p)

\* the length of the run of consecutive days with a check-in that ends
\* today, or yesterday when today has no check-in
RunEndingNow(h) ==
    LET end == IF HasCheckinOn(h, Today) THEN Today ELSE Today - 1
        gaps == {k \in 0..(Len(h.check_ins) + 1) : ~HasCheckinOn(h, end - k)}
    IN CHOOSE k \in gaps : \A j \in gaps : k <= j

\* C28: the streak get_habit_streak returns is the length of the run of
\* consecutive days with a check-in ending today (or yesterday), and 0 when
\* the habit does not exist
C28_StreakIsConsecutiveRun ==
    (report.kind = "streak" /\ ~report.raised) =>
        report.streak = IF FindById(habits, lastOp.arg) = 0 THEN 0
                        ELSE RunEndingNow(habits[FindById(habits, lastOp.arg)])

====
